---- MODULE Spec2Model ----
(***************************************************************************)
(* Model of the TCP read-side reactor, src/network/tcp/reader.rs.          *)
(*                                                                         *)
(* State: the fields of TcpReader (connections, connection_keys, the two   *)
(* scratch buffers, the poll registrations, the outbound notification       *)
(* channel), the sockets' inbound byte streams   *)
(* and whether the reactor thread has panicked.                            *)
(*                                                                         *)
(* Indices into `connections` are 0-based as in the code; Conn(cs, i) is   *)
(* the element the code writes connections[i].                             *)
(***************************************************************************)
EXTENDS Integers, Sequences, FiniteSets, TLC

\* ---------------------------------------------------------------- bounds
NumTokens     == 2   \* connection tokens are 2 .. NumTokens+1
MaxSockets    == 2   \* sockets the acceptor ever hands off
MaxBatch      == 2   \* longest token batch of one command
MaxPayloadLen == 1   \* longest payload a peer frames
MaxMsgs       == 1   \* frames the peers send in total
MaxNet        == 2   \* notifications sent before the model stops
MaxQueue      == 1   \* longest outbound queue of a connection
NumSockets    == 3   \* sockets handed off where SendData carries pairs
MaxPairQueue  == 2   \* longest outbound queue where SendData carries pairs
MaxSends      == 3   \* commands the producers send on the control channel

\* ------------------------------------------------------ program constants
READER_READ_BUFFER_SIZE == 65000
READER_CHANNEL_TOKEN    == 1
LEN_PREFIX_SIZE         == 4

Tokens   == (READER_CHANNEL_TOKEN + 1) .. (READER_CHANNEL_TOKEN + NumTokens)
Sockets  == 1 .. MaxSockets
AllSockets == 1 .. NumSockets
PayloadBytes == {7}
Payloads == UNION { [1..n -> PayloadBytes] : n \in 0..MaxPayloadLen }
OutPayloads == { <<7>> }

\* mio::Ready is a bit set; an event's kind is a non-empty set of these.
Ready_readable == {"readable"}
Ready_writable == {"writable"}
Ready_error    == {"error"}
Ready_hup      == {"hup"}
Kinds == { Ready_readable, Ready_writable, Ready_error, Ready_hup,
           Ready_readable \cup Ready_hup, Ready_error \cup Ready_hup,
           Ready_readable \cup Ready_writable }

VARIABLES
  connections,      \* Vec<TcpReaderConn>
  connection_keys,  \* BTreeMap<Token, usize>
  data_len_buf,     \* Vec<u8>, 4 bytes, owned by the reactor
  data_chunk,       \* Vec<u8>, read chunk buffer: the bytes last read into it
  registered,       \* poll: socket -> [token, interest, oneshot]
  channel_tcp_net,  \* notifications sent to the network loop, in order
  panicked,         \* the reactor thread has panicked (index out of bounds)
  nextSock,         \* next socket the acceptor creates
  inflight,         \* socket -> bytes the peer wrote that have not arrived
  wire,             \* socket -> bytes arrived and not yet read
  sockState,        \* socket -> "open" | "shut" (peer closed or reset) | "closed"
  wireMsgs,         \* history: socket -> payloads the peer framed, in order
  handed,           \* history: token -> sockets handed off with it, in order
  last,             \* history: what the last step was
  channel,          \* control channel: commands sent and not yet received
  chan_event,       \* poll holds a readable event for READER_CHANNEL_TOKEN
  sent              \* history: number of commands sent on the control channel

vars == <<connections, connection_keys, data_len_buf, data_chunk, registered,
          channel_tcp_net, panicked, nextSock, inflight, wire,
          sockState, wireMsgs, handed, last, channel, chan_event, sent>>

reactorVars == <<connections, connection_keys, data_len_buf, data_chunk,
                 registered, channel_tcp_net, panicked>>
socketVars  == <<inflight, wire, sockState, wireMsgs>>
chanVars    == <<channel, chan_event, sent>>

\* ------------------------------------------------------------- helpers
Conn(cs, i)      == cs[i + 1]
InBounds(cs, i)  == i < Len(cs)
\* Vec::remove(i) for i < len: later elements shift down by one
VecRemove(cs, i) == [k \in 1 .. Len(cs) - 1 |-> IF k <= i THEN cs[k] ELSE cs[k + 1]]
\* BTreeMap::insert / remove / contains_key
ContainsKey(m, t) == t \in DOMAIN m
MapInsert(m, t, v) == [k \in DOMAIN m \cup {t} |-> IF k = t THEN v ELSE m[k]]
MapRemove(m, t)    == [k \in DOMAIN m \ {t} |-> m[k]]
EmptyMap == [k \in {} |-> 0]

\* TcpReaderConn::new(sock, token)
NewConn(sock, token) ==
  [socket |-> sock, token |-> token, write_queue |-> <<>>,
   len_got |-> 0, data_len |-> 0, payload |-> <<>>]

\* Notifications (TcpNetworkCommand)
ConnectionClosed(t) == [cmd |-> "ConnectionClosed", token |-> t, data |-> <<>>]
HandleNewData(t, d) == [cmd |-> "HandleNewData", token |-> t, data |-> d]

\* The reactor's state as one record, threaded through the handlers.
Reactor ==
  [connections |-> connections, connection_keys |-> connection_keys,
   data_len_buf |-> data_len_buf, data_chunk |-> data_chunk,
   registered |-> registered, net |-> channel_tcp_net,
   wire |-> wire, panicked |-> panicked]

\* A socket that left `connections` was dropped: the kernel discards what it
\* had buffered.
SocketsOf(cs) == { cs[k].socket : k \in 1..Len(cs) }
Install(R) ==
  /\ connections' = R.connections
  /\ connection_keys' = R.connection_keys
  /\ data_len_buf' = R.data_len_buf
  /\ data_chunk' = R.data_chunk
  /\ registered' = R.registered
  /\ channel_tcp_net' = R.net
  /\ wire' = [s \in DOMAIN R.wire |->
                IF s \in SocketsOf(connections) \ SocketsOf(R.connections)
                THEN <<>> ELSE R.wire[s]]
  /\ panicked' = R.panicked

Panic(R) == [R EXCEPT !.panicked = TRUE]

\* ---------------------------------------------------- close_connection
\* Dropping a TcpReaderConn drops its TcpStream, which closes the socket and
\* so detaches it from the poll instance.
Deregister(reg, sock) == [s \in DOMAIN reg \ {sock} |-> reg[s]]

\* the body of close_connection once the token is known to be present
RemoveAt(R, token, send_data_event) ==
  LET i == R.connection_keys[token] IN
    IF ~InBounds(R.connections, i) THEN Panic(R)
    ELSE [R EXCEPT
            !.connections = VecRemove(R.connections, i),
            !.connection_keys = MapRemove(R.connection_keys, token),
            !.registered = Deregister(R.registered, Conn(R.connections, i).socket),
            !.net = IF send_data_event
                    THEN Append(R.net, ConnectionClosed(token))
                    ELSE R.net]

\* mutant: the notification is sent before the token is looked up
close_connection_notify_first(R, token, send_data_event) ==
  IF ~ContainsKey(R.connection_keys, token)
  THEN IF send_data_event
       THEN [R EXCEPT !.net = Append(R.net, ConnectionClosed(token))] ELSE R
  ELSE RemoveAt(R, token, send_data_event)

close_connection(R, token, send_data_event) ==
  IF ~ContainsKey(R.connection_keys, token) THEN R
  ELSE RemoveAt(R, token, send_data_event)

\* -------------------------------------------------------- make_writable
\* Poll::reregister fails for a socket that was never registered; the code
\* discards the result.
make_writable(R, conn) ==
  IF conn.socket \in DOMAIN R.registered
  THEN [R EXCEPT !.registered[conn.socket] =
          [token |-> conn.token, interest |-> {"readable", "writable"},
           oneshot |-> TRUE]]
  ELSE R

\* ------------------------------------------------------ wire format
Front(q) == SubSeq(q, 1, Len(q) - 1)
Min(a, b) == IF a < b THEN a ELSE b
Take(q, n) == SubSeq(q, 1, n)
Drop(q, n) == SubSeq(q, n + 1, Len(q))

\* 4-byte big-endian length prefix followed by the payload
EncodeLen(n) == << (n \div 16777216) % 256, (n \div 65536) % 256,
                   (n \div 256) % 256, n % 256 >>
Encode(p)    == EncodeLen(Len(p)) \o p
DecodeLen(b) == b[1] * 16777216 + b[2] * 65536 + b[3] * 256 + b[4]

RECURSIVE EncodeAll(_)
EncodeAll(ps) == IF ps = <<>> THEN <<>> ELSE Encode(Head(ps)) \o EncodeAll(Tail(ps))

\* --------------------------------------------- TcpReaderConn::read_data
\* One call: fill the rest of the length prefix into data_len_buf, then the
\* payload through data_chunk. Result: res "ok" with (rd, completed), or "err"
\* (read error, or a read of zero bytes: the peer closed). w is what the
\* socket can deliver without blocking, st what it reports once w is drained:
\* "open" blocks, "shut" reads zero bytes or fails.
Blocked(c, st, lb, ch, w) ==
  [res |-> IF st = "open" THEN "ok" ELSE "err", rd |-> <<>>, completed |-> FALSE,
   conn |-> c, lb |-> lb, chunk |-> ch, wire |-> w]

ReadPayload(c, w, lb, ch, st) ==
  LET need == c.data_len - Len(c.payload)
      n    == Min(need, Len(w))
      got  == c.payload \o Take(w, n)
      \* the chunk buffer keeps what the last read of at most its size left
      k    == IF n % READER_READ_BUFFER_SIZE = 0
              THEN Min(n, READER_READ_BUFFER_SIZE) ELSE n % READER_READ_BUFFER_SIZE
      ch2  == IF n > 0 THEN SubSeq(w, n - k + 1, n) ELSE ch
  IN IF Len(got) = c.data_len
     THEN [res |-> "ok", rd |-> got, completed |-> TRUE,
           conn |-> [c EXCEPT !.len_got = 0, !.data_len = 0, !.payload = <<>>],
           lb |-> lb, chunk |-> ch2, wire |-> Drop(w, n)]
     ELSE Blocked([c EXCEPT !.payload = got], st, lb, ch2, Drop(w, n))

read_data(c, w, lb, ch, st) ==
  IF c.len_got < LEN_PREFIX_SIZE
  THEN LET n   == Min(LEN_PREFIX_SIZE - c.len_got, Len(w))
           lb2 == [k \in 1 .. LEN_PREFIX_SIZE |->
                     IF k > c.len_got /\ k <= c.len_got + n
                     THEN w[k - c.len_got] ELSE lb[k]]
           c2  == [c EXCEPT !.len_got = c.len_got + n]
       IN IF c2.len_got < LEN_PREFIX_SIZE
          THEN Blocked(c2, st, lb2, ch, Drop(w, n))
          ELSE ReadPayload([c2 EXCEPT !.data_len = DecodeLen(lb2)],
                           Drop(w, n), lb2, ch, st)
  ELSE ReadPayload(c, w, lb, ch, st)

\* ------------------------------------------------------------- readable
SetConn(cs, i, c) == [cs EXCEPT ![i + 1] = c]

\* mutant: on a read error the messages decoded so far are still delivered
RECURSIVE ReadLoop_deliver_on_error(_, _, _, _)
ReadLoop_deliver_on_error(R, token, i, total_data) ==
  LET c  == Conn(R.connections, i)
      r  == read_data(c, R.wire[c.socket], R.data_len_buf, R.data_chunk,
                      sockState[c.socket])
      R2 == [R EXCEPT !.connections = SetConn(R.connections, i, r.conn),
                      !.data_len_buf = r.lb, !.data_chunk = r.chunk,
                      !.wire[c.socket] = r.wire]
      total2 == IF Len(r.rd) > 0 THEN Append(total_data, r.rd) ELSE total_data
  IN IF r.res = "err"
     THEN close_connection(
            [R2 EXCEPT !.net = Append(R2.net, HandleNewData(token, total2))],
            token, TRUE)
     ELSE IF r.completed THEN ReadLoop_deliver_on_error(R2, token, i, total2)
     ELSE [R2 EXCEPT !.net = Append(R2.net, HandleNewData(token, total2))]

RECURSIVE ReadLoop(_, _, _, _)
ReadLoop(R, token, i, total_data) ==
  LET c  == Conn(R.connections, i)
      r  == read_data(c, R.wire[c.socket], R.data_len_buf, R.data_chunk,
                      sockState[c.socket])
      R2 == [R EXCEPT !.connections = SetConn(R.connections, i, r.conn),
                      !.data_len_buf = r.lb, !.data_chunk = r.chunk,
                      !.wire[c.socket] = r.wire]
      total2 == IF Len(r.rd) > 0 THEN Append(total_data, r.rd) ELSE total_data
  IN IF r.res = "err" THEN close_connection(R2, token, TRUE)
     ELSE IF r.completed THEN ReadLoop(R2, token, i, total2)
     ELSE [R2 EXCEPT !.net = Append(R2.net, HandleNewData(token, total2))]

readable(R, token) ==
  IF ~ContainsKey(R.connection_keys, token) THEN R
  ELSE LET i == R.connection_keys[token] IN
       IF ~InBounds(R.connections, i) THEN Panic(R)
       ELSE ReadLoop(R, token, i, <<>>)

\* ------------------------------------------------------------- writable
writable(R, token) == R

\* --------------------------------------------------------------- notify
RECURSIVE HandleNewConnectionLoop(_, _, _)
HandleNewConnectionLoop(R, socks, toks) ==
  IF socks = <<>> \/ toks = <<>> THEN R
  ELSE LET sock  == socks[Len(socks)]
           token == toks[Len(toks)]
           cs    == Append(R.connections, NewConn(sock, token))
       IN HandleNewConnectionLoop(
            [R EXCEPT !.connections = cs,
                      !.connection_keys = MapInsert(R.connection_keys, token, Len(cs) - 1)],
            Front(socks), Front(toks))

RECURSIVE CloseConnectionLoop(_, _)
CloseConnectionLoop(R, toks) ==
  IF toks = <<>> THEN R
  ELSE LET R2 == close_connection(R, toks[Len(toks)], FALSE)
       IN IF R2.panicked THEN R2 ELSE CloseConnectionLoop(R2, Front(toks))

\* one turn of the SendData loop, for the token popped; the result is the
\* reactor and what is left of cmd.data
Enqueue(R, token, data) ==
  LET i == R.connection_keys[token] IN
    IF ~InBounds(R.connections, i) THEN [R |-> Panic(R), data |-> data]
    ELSE LET c  == Conn(R.connections, i)
             c2 == [c EXCEPT !.write_queue = c.write_queue \o data]
             R2 == [R EXCEPT !.connections = SetConn(R.connections, i, c2)]
         IN [R |-> make_writable(R2, c2), data |-> <<>>]

\* mutant: no contains_key test, the missing token indexes the first connection
SendDataTurn_unguarded(R, token, data) ==
  IF ~ContainsKey(R.connection_keys, token)
  THEN Enqueue([R EXCEPT !.connection_keys = MapInsert(R.connection_keys, token, 0)],
               token, data)
  ELSE Enqueue(R, token, data)

SendDataTurn(R, token, data) ==
  IF ~ContainsKey(R.connection_keys, token) THEN [R |-> R, data |-> data]
  ELSE Enqueue(R, token, data)

RECURSIVE SendDataLoop(_, _, _)
SendDataLoop(R, toks, data) ==
  IF toks = <<>> THEN R
  ELSE LET r == SendDataTurn(R, toks[Len(toks)], data)
       IN IF r.R.panicked THEN r.R ELSE SendDataLoop(r.R, Front(toks), r.data)

notify(R, cmd) ==
  IF cmd.code = "HandleNewConnection"
  THEN HandleNewConnectionLoop(R, cmd.socket, cmd.token)
  ELSE IF cmd.code = "CloseConnection"
  THEN CloseConnectionLoop(R, cmd.token)
  ELSE IF Len(cmd.data) = 0 THEN R
  ELSE SendDataLoop(R, cmd.token, cmd.data)

\* ----------------------------------------------------------- commands
TokenBatches == UNION { [1..n -> Tokens] : n \in 1..MaxBatch }
DataBatches  == UNION { [1..n -> OutPayloads] : n \in 0..1 }

Command(code, socks, toks, data) ==
  [code |-> code, socket |-> socks, token |-> toks, data |-> data]

\* history: the command or socket event the reactor handled last, whether
\* every token it named was missing from connection_keys when it began, and
\* how many payloads the command carried
Step(op, toks, n) ==
  [op |-> op,
   absent |-> \A k \in 1..Len(toks) : ~ContainsKey(connection_keys, toks[k]),
   n |-> n]


RECURSIVE SumLen(_, _)
SumLen(f, S) ==
  IF S = {} THEN 0
  ELSE LET x == CHOOSE y \in S : TRUE IN Len(f[x]) + SumLen(f, S \ {x})

\* ------------------------------------------------------------------ Init
InitWith(socks) ==
  /\ connections = <<>>
  /\ connection_keys = EmptyMap
  /\ data_len_buf = [k \in 1..LEN_PREFIX_SIZE |-> 0]
  /\ data_chunk = <<>>
  /\ registered = EmptyMap
  /\ channel_tcp_net = <<>>
  /\ panicked = FALSE
  /\ nextSock = 1
  /\ inflight = [s \in socks |-> <<>>]
  /\ wire = [s \in socks |-> <<>>]
  /\ sockState = [s \in socks |-> "open"]
  /\ wireMsgs = [s \in socks |-> <<>>]
  /\ handed = [t \in Tokens |-> <<>>]
  /\ last = [op |-> "none", absent |-> FALSE, n |-> 0]
  /\ channel = <<>>
  /\ chan_event = FALSE
  /\ sent = 0

Init == InitWith(Sockets)

\* ------------------------------------------------------------------ run
RECURSIVE Handed(_, _, _)
Handed(h, socks, toks) ==
  IF socks = <<>> \/ toks = <<>> THEN h
  ELSE Handed([h EXCEPT ![toks[Len(toks)]] = Append(@, socks[Len(socks)])],
              Front(socks), Front(toks))

\* the sockets a step dropped lose their in-flight bytes and their state
DropBuffers ==
  LET gone == SocketsOf(connections) \ SocketsOf(connections') IN
  /\ inflight' = [s \in DOMAIN inflight |-> IF s \in gone THEN <<>> ELSE inflight[s]]
  /\ sockState' = [s \in DOMAIN sockState |-> IF s \in gone THEN "closed" ELSE sockState[s]]

\* An event for READER_CHANNEL_TOKEN whose try_recv returns cmd: notify(cmd).
\* A HandleNewConnection command carries the sockets the acceptor just
\* accepted.
Receive(cmd, maxSock, maxQueue) ==
  /\ ~panicked
  /\ cmd.code = "HandleNewConnection" =>
        /\ cmd.socket = [k \in 1..Len(cmd.token) |-> nextSock + k - 1]
        /\ nextSock + Len(cmd.token) - 1 <= maxSock
  /\ cmd.code # "HandleNewConnection" => cmd.socket = <<>>
  /\ LET R == notify(Reactor, cmd)
     IN /\ \A k \in 1..Len(R.connections) :
              Len(R.connections[k].write_queue) <= maxQueue
        /\ Install(R)
  /\ nextSock' = nextSock + Len(cmd.socket)
  /\ handed' = Handed(handed, cmd.socket, cmd.token)
  /\ last' = Step(cmd.code, cmd.token, Len(cmd.data))
  /\ DropBuffers
  /\ UNCHANGED <<wireMsgs, chanVars>>

ChannelEvent(cmd) == Receive(cmd, MaxSockets, MaxQueue)

\* An event for READER_CHANNEL_TOKEN whose try_recv finds the channel empty.
ChannelEventEmpty ==
  /\ ~panicked
  /\ UNCHANGED vars

\* The handler run's loop applies to an event of another token.
HandleEvent(R, token, kind) ==
  IF kind = Ready_error \/ kind = Ready_hup THEN close_connection(R, token, TRUE)
  ELSE IF kind = Ready_readable THEN readable(R, token)
  ELSE IF kind = Ready_writable THEN writable(R, token)
  ELSE R

EventOp(kind) ==
  IF kind = Ready_error \/ kind = Ready_hup THEN "close_event"
  ELSE IF kind = Ready_readable THEN "readable"
  ELSE IF kind = Ready_writable THEN "writable"
  ELSE "ignored"

SocketEvent(token, kind) ==
  /\ ~panicked
  /\ Len(channel_tcp_net) < MaxNet
  /\ Install(HandleEvent(Reactor, token, kind))
  /\ last' = Step(EventOp(kind), <<token>>, 0)
  /\ DropBuffers
  /\ UNCHANGED <<nextSock, wireMsgs, handed, chanVars>>

\* ---------------------------------------------------------------- peers
PeerStep == [op |-> "peer", absent |-> FALSE, n |-> 0]

PeerSend(s, p) ==
  /\ ~panicked
  /\ s \in SocketsOf(connections)
  /\ sockState[s] = "open"
  /\ SumLen(wireMsgs, DOMAIN wireMsgs) < MaxMsgs
  /\ inflight' = [inflight EXCEPT ![s] = @ \o Encode(p)]
  /\ wireMsgs' = [wireMsgs EXCEPT ![s] = Append(@, p)]
  /\ UNCHANGED <<reactorVars, nextSock, wire, sockState, handed, chanVars>>
  /\ last' = PeerStep

Arrive(s, n) ==
  /\ ~panicked
  /\ s \in SocketsOf(connections)
  /\ n <= Len(inflight[s])
  /\ wire' = [wire EXCEPT ![s] = @ \o Take(inflight[s], n)]
  /\ inflight' = [inflight EXCEPT ![s] = Drop(@, n)]
  /\ UNCHANGED <<reactorVars, nextSock, sockState, wireMsgs, handed, chanVars>>
  /\ last' = PeerStep

PeerShutdown(s) ==
  /\ ~panicked
  /\ s \in SocketsOf(connections)
  /\ sockState[s] = "open"
  /\ inflight[s] = <<>>
  /\ sockState' = [sockState EXCEPT ![s] = "shut"]
  /\ UNCHANGED <<reactorVars, nextSock, inflight, wire, wireMsgs, handed, chanVars>>
  /\ last' = PeerStep

MaxFrame == LEN_PREFIX_SIZE + MaxPayloadLen

Commands ==
  { Command("HandleNewConnection", [k \in 1..Len(toks) |-> nextSock + k - 1], toks, <<>>) :
      toks \in TokenBatches }
  \cup { Command("CloseConnection", <<>>, toks, <<>>) : toks \in TokenBatches }
  \cup { Command("SendData", <<>>, toks, data) :
           toks \in TokenBatches, data \in DataBatches }

Next ==
  \/ \E cmd \in Commands : ChannelEvent(cmd)
  \/ ChannelEventEmpty
  \/ \E token \in Tokens, kind \in Kinds : SocketEvent(token, kind)
  \/ \E s \in Sockets, p \in Payloads : PeerSend(s, p)
  \/ \E s \in Sockets, n \in 1..MaxFrame : Arrive(s, n)
  \/ \E s \in Sockets : PeerShutdown(s)

Spec == Init /\ [][Next]_vars

\* --------------------------------------------- the control channel itself
\* A producer sends cmd through a clone of channel_sender. The receiver is
\* registered with PollOpt::edge(): the channel raises its readiness, and
\* poll queues one event for READER_CHANNEL_TOKEN, when a send finds the
\* channel empty; a send that finds commands pending raises nothing. A
\* HandleNewConnection command carries the sockets just accepted.
Send(cmd) ==
  /\ ~panicked
  /\ sent < MaxSends
  /\ cmd.code = "HandleNewConnection" => nextSock + Len(cmd.token) - 1 <= MaxSockets
  /\ channel' = Append(channel, cmd)
  /\ chan_event' = (chan_event \/ channel = <<>>)
  /\ sent' = sent + 1
  /\ nextSock' = nextSock + Len(cmd.socket)
  /\ last' = [op |-> "send", absent |-> FALSE, n |-> Len(cmd.data)]
  /\ UNCHANGED <<reactorVars, socketVars, handed>>

\* run's loop takes the event for READER_CHANNEL_TOKEN: one try_recv, and
\* notify for the command it returns.
ChannelWake ==
  /\ ~panicked
  /\ chan_event
  /\ chan_event' = FALSE
  /\ IF channel = <<>>
     THEN UNCHANGED <<reactorVars, socketVars, handed, channel, last>>
     ELSE LET cmd == Head(channel) IN
          /\ Install(notify(Reactor, cmd))
          /\ channel' = Tail(channel)
          /\ handed' = Handed(handed, cmd.socket, cmd.token)
          /\ last' = Step(cmd.code, cmd.token, Len(cmd.data))
          /\ DropBuffers
          /\ UNCHANGED wireMsgs
  /\ UNCHANGED <<nextSock, sent>>

NextChannel ==
  \/ \E cmd \in Commands : Send(cmd)
  \/ ChannelWake

\* the loop handles an event that poll holds
SpecChannel == Init /\ [][NextChannel]_vars /\ WF_vars(ChannelWake)

\* ------------------------------- commands whose SendData carries pairs
\* token[k] is paired with data[k]
PairedCommands ==
  { Command("HandleNewConnection", <<nextSock>>, <<t>>, <<>>) : t \in Tokens }
  \cup { Command("CloseConnection", <<>>, <<t>>, <<>>) : t \in Tokens }
  \cup { Command("SendData", <<>>, toks, [k \in 1..Len(toks) |-> <<7>>]) :
           toks \in TokenBatches }

PairedChannelEvent(cmd) == Receive(cmd, NumSockets, MaxPairQueue)

NextPaired ==
  \/ \E cmd \in PairedCommands : PairedChannelEvent(cmd)
  \/ \E token \in Tokens : SocketEvent(token, Ready_readable)
  \/ \E s \in AllSockets : PeerSend(s, <<7>>)
  \/ \E s \in AllSockets : Arrive(s, MaxFrame)

InitPaired == InitWith(AllSockets)

SpecPaired == InitPaired /\ [][NextPaired]_vars

\* ======================================================================
\* Properties
\* ======================================================================
CloseCmd(toks)      == Command("CloseConnection", <<>>, toks, <<>>)
Present(t)          == ContainsKey(connection_keys, t)
LastOf(q)           == q[Len(q)]
CloseKinds          == { k \in Kinds : "error" \in k \/ "hup" \in k }
Interest(s)         == IF s \in DOMAIN registered THEN registered[s].interest ELSE {}

\* the payloads of the HandleNewData notifications for token t, in send order
RECURSIVE Delivered(_, _)
Delivered(net, t) ==
  IF net = <<>> THEN <<>>
  ELSE LET h == Head(net) IN
       (IF h.cmd = "HandleNewData" /\ h.token = t THEN h.data ELSE <<>>)
         \o Delivered(Tail(net), t)

\* the frames of ps that lie completely within the first n bytes of the stream
RECURSIVE CompleteMsgs(_, _)
CompleteMsgs(ps, n) ==
  IF ps = <<>> \/ Len(Encode(Head(ps))) > n THEN <<>>
  ELSE <<Head(ps)>> \o CompleteMsgs(Tail(ps), n - Len(Encode(Head(ps))))

IsPrefix(a, b) == Len(a) <= Len(b) /\ a = SubSeq(b, 1, Len(a))

\* bytes of socket s that the reactor has read
Consumed(s) == Len(EncodeAll(wireMsgs[s])) - Len(inflight[s]) - Len(wire[s])

\* tokens handed off exactly once, with a connection still in the table
Single(t) == Len(handed[t]) = 1 /\ Present(t) /\ handed[t][1] \in SocketsOf(connections)

\* C1: every token present resolves, through connection_keys[token] as an
\* index into connections, to the connection last added with that token, and
\* no two present tokens resolve to the same stored connection.
C1_TableBijection ==
  /\ \A t \in DOMAIN connection_keys :
        /\ InBounds(connections, connection_keys[t])
        /\ Conn(connections, connection_keys[t]).token = t
        /\ Conn(connections, connection_keys[t]).socket = LastOf(handed[t])
  /\ \A t, u \in DOMAIN connection_keys :
        t # u => connection_keys[t] # connection_keys[u]

\* C2: a step that closes only tokens missing from the table, by a
\* CloseConnection command or by an error or hang-up event, does not panic,
\* leaves the table and the poll registrations unchanged and sends no
\* notification.
C2_IdempotentClose ==
  [][ (last'.op \in {"CloseConnection", "close_event"} /\ last'.absent)
        => /\ UNCHANGED <<connections, connection_keys, registered, channel_tcp_net>>
           /\ ~panicked' ]_vars

\* C2 witness: every token was handed off and closed again, and the last step
\* was an error or hang-up event for one of them, which did not panic.
C2_Witness ==
  /\ last.op = "close_event" /\ last.absent
  /\ ~panicked
  /\ connection_keys = EmptyMap
  /\ \A t \in Tokens : handed[t] # <<>>

\* C3: a CloseConnection command for a token in the table removes it and
\* sends no notification; an error or hang-up event for a token in the table
\* sends exactly one ConnectionClosed for it; and a ConnectionClosed for T is
\* only ever sent by a socket event for T while T is in the table.
C3_NotifyIffDetected ==
  [][ /\ \A t \in Tokens :
           (~panicked /\ Present(t)) =>
             /\ ChannelEvent(CloseCmd(<<t>>)) =>
                  ~ContainsKey(connection_keys', t) /\ UNCHANGED channel_tcp_net
             /\ (SocketEvent(t, Ready_error) \/ SocketEvent(t, Ready_hup)) =>
                  channel_tcp_net' = Append(channel_tcp_net, ConnectionClosed(t))
      /\ (channel_tcp_net' # channel_tcp_net
            /\ LastOf(channel_tcp_net').cmd = "ConnectionClosed") =>
           LET t == LastOf(channel_tcp_net').token IN
             /\ Present(t)
             /\ \E kind \in Kinds : SocketEvent(t, kind) ]_vars

\* C4: a SendData command all of whose tokens are missing from the table
\* changes no connection (queue, framing state), no table entry, no poll
\* registration and no buffer, sends no notification and does not panic.
C4_SendAfterCloseSilent ==
  [][ (last'.op = "SendData" /\ last'.absent)
        => /\ UNCHANGED <<connections, connection_keys, registered,
                          channel_tcp_net, data_len_buf, data_chunk, wire>>
           /\ ~panicked' ]_vars

\* C4 witness: a SendData command carrying a payload named only missing
\* tokens, one of them closed earlier, while another connection is live.
C4_Witness ==
  /\ last.op = "SendData" /\ last.absent /\ last.n > 0
  /\ ~panicked
  /\ connections # <<>>
  /\ \E t \in Tokens : handed[t] # <<>> /\ ~Present(t)

\* C5: a connection has read+write interest exactly while its outbound queue
\* is non-empty: enqueuing moves it to read+write interest, and it holds
\* read+write interest only while data is queued.
C5_InterestTracksQueue ==
  \A k \in 1..Len(connections) :
    LET c == connections[k] IN
      c.write_queue # <<>> <=> Interest(c.socket) = {"readable", "writable"}

\* C6: every HandleNewData notification carries at least one message.
C6_NoEmptyBatch ==
  \A k \in 1..Len(channel_tcp_net) :
    channel_tcp_net[k].cmd = "HandleNewData" => channel_tcp_net[k].data # <<>>

\* C7: for a token handed off once, the payloads delivered so far are a
\* prefix of what its peer framed, and once everything that arrived has been
\* read they are exactly the complete frames that arrived.
C7_PerTokenOrdering ==
  \A t \in Tokens :
    Single(t) =>
      LET s == handed[t][1] IN
        /\ IsPrefix(Delivered(channel_tcp_net, t), wireMsgs[s])
        /\ (wire[s] = <<>> /\ ~panicked /\ sockState[s] = "open") =>
             Delivered(channel_tcp_net, t) = CompleteMsgs(wireMsgs[s], Consumed(s))

\* C8: for a token handed off once, when every byte its peer wrote has
\* arrived and has been read, in whatever fragments, the messages delivered
\* are exactly the payloads the peer framed.
C8_FramingRoundTrip ==
  \A t \in Tokens :
    (/\ Single(t)
     /\ ~panicked
     /\ Consumed(handed[t][1]) = Len(EncodeAll(wireMsgs[handed[t][1]])))
      => Delivered(channel_tcp_net, t) = wireMsgs[handed[t][1]]

\* C9: a socket belongs to a connection of the table exactly when it is
\* registered with the poll instance.
C9_RegisteredIffInTable ==
  \A s \in Sockets : s \in SocketsOf(connections) <=> s \in DOMAIN registered

\* C10: an event whose readiness contains error or hang-up, for a token in
\* the table, removes the token and sends exactly one ConnectionClosed.
C10_ErrorAlwaysCloses ==
  [][ \A t \in Tokens, kind \in CloseKinds :
        (~panicked /\ Present(t) /\ SocketEvent(t, kind)) =>
          /\ ~ContainsKey(connection_keys', t)
          /\ channel_tcp_net' = Append(channel_tcp_net, ConnectionClosed(t)) ]_vars

\* the notifications a step sent
Sent == SubSeq(channel_tcp_net', Len(channel_tcp_net) + 1, Len(channel_tcp_net'))

\* C11: a step that removes tokens from the table (a close command, an error
\* or hang-up event, a failed read) leaves every token that stays in the
\* table resolving to the same stored connection, with the same queue and
\* framing state, and sends no notification for it.
C11_Isolation ==
  [][ (/\ DOMAIN connection_keys' # DOMAIN connection_keys
       /\ DOMAIN connection_keys' \subseteq DOMAIN connection_keys) =>
        \A u \in DOMAIN connection_keys' :
          InBounds(connections, connection_keys[u]) =>
            /\ InBounds(connections', connection_keys'[u])
            /\ Conn(connections', connection_keys'[u])
                 = Conn(connections, connection_keys[u])
            /\ \A k \in 1..Len(Sent) : Sent[k].token # u ]_vars

\* C14: the table stores exactly one connection per key: adding a token that
\* is already present never leaves a stored connection that no key resolves to.
C14_NoShadowedConnection ==
  Len(connections) = Cardinality(DOMAIN connection_keys)

\* C15: a writable event for a token in the table whose connection has
\* payloads queued makes progress on that connection: its queue is drained
\* (or the connection is closed on a write error).
C15_WritableDrains ==
  [][ \A t \in Tokens :
        (/\ ~panicked /\ Present(t)
         /\ InBounds(connections, connection_keys[t])
         /\ Conn(connections, connection_keys[t]).write_queue # <<>>
         /\ SocketEvent(t, Ready_writable))
          => connections' # connections ]_vars

\* the SendData command handled last called make_writable for a connection
\* whose socket is not registered with the poll instance: reregister failed
ReregisterFailed ==
  /\ last.op = "SendData" /\ ~last.absent /\ last.n > 0
  /\ \E k \in 1..Len(connections) :
        /\ connections[k].write_queue # <<>>
        /\ connections[k].socket \notin DOMAIN registered

\* C16: the reactor does not keep running after a failed reregistration of a
\* connection's socket.
C16_RegistrationFailureFatal ==
  ReregisterFailed => panicked

\* C17: for a token handed off once, when everything that arrived has been
\* read, as many messages were delivered as complete frames arrived,
\* zero-length frames included.
C17_ZeroLengthDelivered ==
  \A t \in Tokens :
    (/\ Single(t) /\ ~panicked
     /\ wire[handed[t][1]] = <<>> /\ sockState[handed[t][1]] = "open")
      => Len(Delivered(channel_tcp_net, t))
           = Len(CompleteMsgs(wireMsgs[handed[t][1]], Consumed(handed[t][1])))

\* C18: every index stored in connection_keys is below connections.len(),
\* and the reactor thread has not panicked.
C18_IndicesInBounds ==
  /\ ~panicked
  /\ \A t \in DOMAIN connection_keys : connection_keys[t] < Len(connections)

Dispatched == sent - Len(channel)

\* C12: every command sent on the control channel is eventually received
\* and dispatched, as long as the reactor thread is alive.
C12_CommandsConsumed ==
  \A k \in 1..MaxSends : (sent >= k) ~> (Dispatched >= k \/ panicked)

\* the payloads a paired SendData command carries for token t, in batch order
RECURSIVE PayloadsFor(_, _, _)
PayloadsFor(toks, data, t) ==
  IF toks = <<>> \/ data = <<>> THEN <<>>
  ELSE (IF Head(toks) = t THEN <<Head(data)>> ELSE <<>>)
         \o PayloadsFor(Tail(toks), Tail(data), t)

PairedSends == { cmd \in PairedCommands : cmd.code = "SendData" }
Resolves(t) ==
  /\ Present(t)
  /\ InBounds(connections, connection_keys[t])
  /\ Conn(connections, connection_keys[t]).token = t

\* C13: a SendData command appends, to the queue of every token in the table,
\* exactly the payloads paired with that token, in batch order, after what
\* was queued already.
C13_PairedEnqueue ==
  [][ \A cmd \in PairedSends :
        PairedChannelEvent(cmd) =>
          \A t \in Tokens :
            Resolves(t) =>
              /\ ContainsKey(connection_keys', t)
              /\ InBounds(connections', connection_keys'[t])
              /\ Conn(connections', connection_keys'[t]).write_queue
                   = Conn(connections, connection_keys[t]).write_queue
                       \o PayloadsFor(cmd.token, cmd.data, t) ]_vars

\* C19: a readable wake that sends HandleNewData with payloads for token T
\* has read bytes only from the socket handed off with T.
C19_DataAttribution ==
  [][ \A k \in 1..Len(Sent) :
        (Sent[k].cmd = "HandleNewData" /\ Sent[k].data # <<>>) =>
          \A s \in AllSockets :
            wire'[s] # wire[s] => s = LastOf(handed[Sent[k].token]) ]_vars

====
